---- MODULE Spec2Model ----
(***************************************************************************)
(* Model of scripts/generation_publications.py: the tolerant BibTeX parser *)
(* (parse_bibtex_text), the classifier (is_preprint, assign_category) and  *)
(* the filter/group/render loops of generate_html.                         *)
(*                                                                         *)
(* A Python str is a sequence of one-character strings.  Positions kept in *)
(* the state (pos) are Python's 0-based offsets; Slice(s, a, b) is s[a:b]. *)
(***************************************************************************)
EXTENDS Integers, Sequences, FiniteSets, TLC

VARIABLES
    text,          \* main: the source text read from bib_file
    pos,           \* parse_bibtex_text: the scan cursor
    entries,       \* the list of entry dicts (a dict is a function on its keys)
    pc,            \* the statement the run is at
    rules,         \* compiled_rules, the rule list consulted by assign_category
    ret,           \* the last value returned by a classifier call
    idx,           \* generate_html: index of the loop in progress
    filtered,      \* generate_html: filtered, as references (indices) into entries
    by_year,       \* generate_html: by_year, year -> list of references
    sorted_years,  \* generate_html: sorted_years
    year_links,    \* generate_html: the sidebar links, <<year, badge count>>
    sections,      \* generate_html: sections_html, one record per year section
    entry_counter, \* generate_html: entry_counter
    printed,       \* the summary line printed at the end
    dom            \* the generated page in a browser: checkboxes and hidden cards

parseVars == <<text, pos>>
genVars == <<idx, filtered, by_year, sorted_years, year_links, sections, entry_counter, printed>>
vars == <<text, pos, entries, pc, rules, ret, idx, filtered, by_year, sorted_years, year_links,
          sections, entry_counter, printed, dom>>

\* ------------------------------------------------------------------
\* Strings
\* ------------------------------------------------------------------
Chars(s) == [i \in 1..Len(s) |-> SubSeq(s, i, i)]

LowerLetters == Chars("abcdefghijklmnopqrstuvwxyz")
UpperLetters == Chars("ABCDEFGHIJKLMNOPQRSTUVWXYZ")
LowerSet == {LowerLetters[i] : i \in 1..26}
UpperSet == {UpperLetters[i] : i \in 1..26}
Letter == LowerSet \cup UpperSet
Digit == {"0", "1", "2", "3", "4", "5", "6", "7", "8", "9"}
Space == {" ", "\t", "\n", "\r"}
Word == Letter \cup Digit \cup {"_"}

\* str.lower() on one character: the ASCII letters and the capital letters that
\* LATEX_REPLACEMENTS can produce
LowerOf == [c \in UpperSet \cup {"Ä", "Ö", "Ü"} |->
               CASE c = "Ä" -> "ä" [] c = "Ö" -> "ö" [] c = "Ü" -> "ü"
                 [] OTHER -> LowerLetters[CHOOSE i \in 1..26 : UpperLetters[i] = c]]
LowerChar(c) == IF c \in DOMAIN LowerOf THEN LowerOf[c] ELSE c
\* str.lower()
LowerStr(s) == [i \in 1..Len(s) |-> LowerChar(s[i])]

\* s[a:b] with 0 <= a, b <= len(s)
Slice(s, a, b) == SubSeq(s, a + 1, b)

\* first index j >= i (1-based) whose character is outside cls, Len(s)+1 if none
SkipWhile(s, i, cls) ==
    CHOOSE j \in i..(Len(s) + 1) :
        /\ \A m \in i..(j - 1) : s[m] \in cls
        /\ (j = Len(s) + 1 \/ s[j] \notin cls)

\* str.strip()
Strip(s) ==
    LET a == SkipWhile(s, 1, Space)
    IN  IF a > Len(s) THEN <<>>
        ELSE LET b == CHOOSE j \in a..Len(s) :
                          /\ s[j] \notin Space
                          /\ \A m \in (j + 1)..Len(s) : s[m] \in Space
             IN  SubSeq(s, a, b)

\* s.startswith(p) at 1-based index i
HasAt(s, i, p) ==
    /\ i + Len(p) - 1 <= Len(s)
    /\ \A m \in 1..Len(p) : s[i + m - 1] = p[m]

\* p in s
Contains(s, p) == \E i \in 1..(Len(s) - Len(p) + 1) : HasAt(s, i, p)

\* s.find(c, from): 0-based index of the first c at or after offset from, -1 if none
Find(s, c, from) ==
    IF \E j \in (from + 1)..Len(s) : s[j] = c
    THEN (CHOOSE j \in (from + 1)..Len(s) : s[j] = c /\ \A m \in (from + 1)..(j - 1) : s[m] # c) - 1
    ELSE -1

RECURSIVE Join(_, _)
\* sep.join(parts)
Join(parts, sep) ==
    IF Len(parts) = 0 THEN <<>>
    ELSE IF Len(parts) = 1 THEN parts[1]
    ELSE parts[1] \o sep \o Join(Tail(parts), sep)

RECURSIVE Flatten(_)
Flatten(parts) == IF Len(parts) = 0 THEN <<>> ELSE parts[1] \o Flatten(Tail(parts))

\* ------------------------------------------------------------------
\* Record-start markers
\* ------------------------------------------------------------------
\* r'@[A-Za-z]+\s*\{' matched at 1-based index i: index of the "{" that ends
\* the match, 0 if there is no match at i
MarkerBrace(s, i) ==
    IF i > Len(s) \/ s[i] # "@" THEN 0
    ELSE LET a == SkipWhile(s, i + 1, Letter)
             b == SkipWhile(s, a, Space)
         IN  IF a > i + 1 /\ b <= Len(s) /\ s[b] = "{" THEN b ELSE 0

\* re.search(r'@[A-Za-z]+\s*\{', s): m.start() (0-based), -1 if no match
SearchMarker(s) ==
    IF \E i \in 1..Len(s) : MarkerBrace(s, i) # 0
    THEN (CHOOSE i \in 1..Len(s) :
             MarkerBrace(s, i) # 0 /\ \A m \in 1..(i - 1) : MarkerBrace(s, m) = 0) - 1
    ELSE -1

\* r'\n\s*@[A-Za-z]+\s*\{' matched at 1-based index i
NlMarkerAt(s, i) ==
    /\ i <= Len(s)
    /\ s[i] = "\n"
    /\ MarkerBrace(s, SkipWhile(s, i + 1, Space)) # 0

\* re.search(r'\n\s*@[A-Za-z]+\s*\{', s): m2.start() (0-based), -1 if no match
SearchNlMarker(s) ==
    IF \E i \in 1..Len(s) : NlMarkerAt(s, i)
    THEN (CHOOSE i \in 1..Len(s) :
             NlMarkerAt(s, i) /\ \A m \in 1..(i - 1) : ~NlMarkerAt(s, m)) - 1
    ELSE -1

\* ------------------------------------------------------------------
\* Regular expressions used with re.search / re.sub.  A pattern is a
\* sequence of items; an alternation is a set of such sequences.
\* ------------------------------------------------------------------
Lit(str) == [k |-> "lit", s |-> Chars(str)]      \* literal text
Opt(str) == [k |-> "opt", s |-> Chars(str)]      \* x?
One(cls) == [k |-> "one", c |-> cls]             \* \d , \s
Plus(cls) == [k |-> "plus", c |-> cls]           \* \s+
AnyStar == [k |-> "anystar"]                     \* .*  (no DOTALL: not a newline)
WB == [k |-> "wb"]                               \* \b
BOL == [k |-> "bol"]                             \* ^
EOL == [k |-> "eol"]                             \* $

\* \b between s[i-1] and s[i]
WordBoundary(s, i) ==
    ((i > 1) /\ (s[i - 1] \in Word)) # ((i <= Len(s)) /\ (s[i] \in Word))

RECURSIVE MatchEnds(_, _, _, _)
\* the positions (1-based index of the first character after the match) at
\* which items k.. of pattern p can end when matched at position i of s
MatchEnds(p, k, s, i) ==
    IF k > Len(p) THEN {i}
    ELSE LET it == p[k] IN
      CASE it.k = "lit" ->
             IF HasAt(s, i, it.s) THEN MatchEnds(p, k + 1, s, i + Len(it.s)) ELSE {}
        [] it.k = "opt" ->
             MatchEnds(p, k + 1, s, i)
               \cup (IF HasAt(s, i, it.s) THEN MatchEnds(p, k + 1, s, i + Len(it.s)) ELSE {})
        [] it.k = "one" ->
             IF i <= Len(s) /\ s[i] \in it.c THEN MatchEnds(p, k + 1, s, i + 1) ELSE {}
        [] it.k = "plus" ->
             UNION {MatchEnds(p, k + 1, s, j) : j \in (i + 1)..SkipWhile(s, i, it.c)}
        [] it.k = "anystar" ->
             UNION {MatchEnds(p, k + 1, s, j) : j \in i..SkipWhile(s, i, {s[m] : m \in 1..Len(s)} \ {"\n"})}
        [] it.k = "wb" ->
             IF WordBoundary(s, i) THEN MatchEnds(p, k + 1, s, i) ELSE {}
        [] it.k = "bol" ->
             IF i = 1 THEN MatchEnds(p, k + 1, s, i) ELSE {}
        [] it.k = "eol" ->
             IF i = Len(s) + 1 \/ (i = Len(s) /\ s[i] = "\n")
             THEN MatchEnds(p, k + 1, s, i) ELSE {}

\* some alternative of alts matches at position i of s
MatchesAt(alts, s, i) == \E p \in alts : MatchEnds(p, 1, s, i) # {}

\* bool(re.search(alts, s))
ReSearch(alts, s) == \E i \in 1..(Len(s) + 1) : MatchesAt(alts, s, i)

\* bool(re.search(alts, s, re.IGNORECASE)) for patterns written in lower case
ReSearchI(alts, s) == ReSearch(alts, LowerStr(s))

SetMax(S) == CHOOSE x \in S : \A y \in S : y <= x

\* re.sub(p, rep, s) for a one-character replacement rep and a pattern p that
\* never matches the empty string.  re.sub replaces the leftmost matches that
\* do not overlap, each taken greedily: a match is replaced unless an earlier
\* match covers its start.  (No pattern passed to re.sub by this program can
\* overlap a replaced match of itself otherwise: the escapes start with a
\* backslash that occurs nowhere else in them, and \s+ takes a whole run.)
ReSub(p, rep, s) ==
    LET end(i) == LET ends == MatchEnds(p, 1, s, i) \ {i}
                  IN  IF ends = {} THEN 0 ELSE SetMax(ends)
        ends == [i \in 1..Len(s) |-> end(i)]
        covered(i) == \E m \in 1..(i - 1) : ends[m] > i
        \* the positions of s that contribute one character to the result
        kept == {i \in 1..Len(s) : ~covered(i)}
        rank == [i \in 1..Len(s) |-> Cardinality({m \in kept : m <= i})]
    IN  IF \A i \in 1..Len(s) : ends[i] = 0 THEN s
        ELSE [j \in 1..Cardinality(kept) |->
                 LET i == CHOOSE i \in kept : rank[i] = j
                 IN  IF ends[i] # 0 THEN rep[1] ELSE s[i]]

\* ------------------------------------------------------------------
\* Value cleaning
\* ------------------------------------------------------------------
Esc(str, rep) == [pat |-> <<Lit(str)>>, rep |-> <<rep>>]

\* the grave accent character cannot be written inside a TLA+ string literal;
\* it is the one-character string Grave
Grave == "GRAVE"
EscGrave(letter, rep) == [pat |-> <<[k |-> "lit", s |-> <<"\\", Grave, letter>>]>>, rep |-> <<rep>>]

\* in r"\\^a" and r"\\$" the characters ^ and $ are regex anchors
EscCaret(letter, rep) == [pat |-> <<Lit("\\"), BOL, Lit(letter)>>, rep |-> <<rep>>]

LATEX_REPLACEMENTS == <<
    Esc("\\\"a", "ä"), Esc("\\\"o", "ö"), Esc("\\\"u", "ü"),
    Esc("\\\"A", "Ä"), Esc("\\\"O", "Ö"), Esc("\\\"U", "Ü"),
    Esc("\\'a", "á"), Esc("\\'e", "é"), Esc("\\'i", "í"), Esc("\\'o", "ó"), Esc("\\'u", "ú"),
    EscGrave("a", "à"), EscGrave("e", "è"), EscGrave("i", "ì"), EscGrave("o", "ò"), EscGrave("u", "ù"),
    Esc("\\~n", "ñ"),
    EscCaret("a", "â"), EscCaret("e", "ê"), EscCaret("i", "î"), EscCaret("o", "ô"), EscCaret("u", "û"),
    Esc("\\ss", "ß"), Esc("\\&", "&"), Esc("\\_", "_"), Esc("\\%", "%"),
    [pat |-> <<Lit("\\"), EOL>>, rep |-> <<"$">>] >>

RECURSIVE ApplyReplacements(_, _)
ApplyReplacements(s, k) ==
    IF k > Len(LATEX_REPLACEMENTS) THEN s
    ELSE ApplyReplacements(ReSub(LATEX_REPLACEMENTS[k].pat, LATEX_REPLACEMENTS[k].rep, s), k + 1)

unlatex(s) == Strip(ReSub(<<Plus(Space)>>, <<" ">>, ApplyReplacements(s, 1)))

StripPair(v, open, close) ==
    IF Len(v) >= 1 /\ v[1] = open /\ v[Len(v)] = close THEN Slice(v, 1, Len(v) - 1) ELSE v

_clean_field_value(v) == unlatex(StripPair(StripPair(Strip(v), "{", "}"), "\"", "\""))

\* ------------------------------------------------------------------
\* Field extraction
\* ------------------------------------------------------------------
FieldNames == {"title", "author", "year", "journal", "booktitle", "institution",
               "publisher", "organization", "volume", "number", "pages", "keywords",
               "doi", "url"}

\* (?:,\s*\n|\n) matched at 1-based index t (DOTALL does not change it)
TerminatorAt(s, t) ==
    /\ t <= Len(s)
    /\ \/ s[t] = "\n"
       \/ /\ s[t] = ","
          /\ \E u \in (t + 1)..Len(s) : s[u] = "\n" /\ \A m \in (t + 1)..(u - 1) : s[m] \in Space

\* FIELD_PATTERNS[name] = r"\bname\s*=\s*(.+?)(?:,\s*\n|\n)" with
\* re.IGNORECASE | re.DOTALL, matched at 1-based index i of s (ls is s in
\* lower case, nm the characters of name): the pair <<first, last>> of the
\* indices of group(1), <<0, 0>> if there is no match at i.
\* The second \s* is greedy (longest first, giving back one character at a
\* time), .+? is lazy (shortest first) and, under DOTALL, matches newlines.
FieldMatchAt(s, ls, i, nm) ==
    IF ~(HasAt(ls, i, nm) /\ WordBoundary(s, i)) THEN <<0, 0>>
    ELSE LET eq == SkipWhile(s, i + Len(nm), Space)
         IN  IF eq > Len(s) \/ s[eq] # "=" THEN <<0, 0>>
             ELSE LET r == SkipWhile(s, eq + 1, Space)
                      ok(v) == \E e \in v..Len(s) : TerminatorAt(s, e + 1)
                      vs == {v \in (eq + 1)..r : ok(v)}
                  IN  IF vs = {} THEN <<0, 0>>
                      ELSE LET v == SetMax(vs)
                               e == CHOOSE e \in v..Len(s) :
                                        /\ TerminatorAt(s, e + 1)
                                        /\ \A m \in v..(e - 1) : ~TerminatorAt(s, m + 1)
                           IN  <<v, e>>

FieldSearch(s, ls, nm) ==
    LET starts == {i \in 1..Len(s) : FieldMatchAt(s, ls, i, nm) # <<0, 0>>}
    IN  IF starts = {} THEN <<>>
        ELSE LET i == CHOOSE i \in starts : \A m \in starts : i <= m
                 g == FieldMatchAt(s, ls, i, nm)
             IN  SubSeq(s, g[1], g[2])

\* mm = re.search(FIELD_PATTERNS[name], s, re.IGNORECASE | re.DOTALL):
\* mm.group(1), or <<>> when mm is None (group(1) is never empty)
FieldGroup(s, name) == FieldSearch(s, LowerStr(s), Chars(name))

Unknown == Chars("Unknown")

\* r'(19\d{2}|20\d{2})'
YearPattern == {<<Lit("19"), One(Digit), One(Digit)>>, <<Lit("20"), One(Digit), One(Digit)>>}

\* NormalizeYear keeping the field as written when it holds no year token
NormalizeYear_KeepField(y) ==
    IF y # <<>>
    THEN IF ReSearch(YearPattern, y)
         THEN LET i == CHOOSE i \in 1..Len(y) :
                           MatchesAt(YearPattern, y, i)
                           /\ \A m \in 1..(i - 1) : ~MatchesAt(YearPattern, y, m)
              IN  SubSeq(y, i, i + 3)
         ELSE y
    ELSE Unknown

\* lines 142-147: the normalised year of a cleaned year value y ("" when absent)
NormalizeYear(y) ==
    IF y # <<>>
    THEN IF ReSearch(YearPattern, y)
         THEN LET i == CHOOSE i \in 1..Len(y) :
                           MatchesAt(YearPattern, y, i)
                           /\ \A m \in 1..(i - 1) : ~MatchesAt(YearPattern, y, m)
              IN  SubSeq(y, i, i + 3)
         ELSE Unknown
    ELSE Unknown

\* NextStart finding a marker only right at the cursor (match, not search)
NextStart_AtCursor(t, p) ==
    IF MarkerBrace(Slice(t, p, Len(t)), 1) # 0 THEN p ELSE -1

\* ------------------------------------------------------------------
\* parse_bibtex_text: one iteration of the while loop on text from pos
\* ------------------------------------------------------------------
\* start (0-based) of the next record, -1 when the loop breaks
NextStart(t, p) ==
    LET m == SearchMarker(Slice(t, p, Len(t)))
    IN  IF m = -1 THEN -1 ELSE p + m

\* BlockEnd looking for the next marker anywhere, not at the start of a line
BlockEnd_AnyMarker(t, start) ==
    LET m2 == SearchMarker(Slice(t, start + 1, Len(t)))
    IN  start + 1 + (IF m2 # -1 THEN m2 ELSE Len(t) - start - 1)

\* end (0-based, exclusive) of the record starting at start
BlockEnd(t, start) ==
    LET m2 == SearchNlMarker(Slice(t, start + 1, Len(t)))
    IN  start + 1 + (IF m2 # -1 THEN m2 ELSE Len(t) - start - 1)

\* EntryType always taking the fallback
EntryType_Misc(segment) == Chars("misc")

\* mtype.group(1).lower() if mtype else "misc"
EntryType(segment) ==
    IF MarkerBrace(segment, 1) # 0
    THEN LowerStr(SubSeq(segment, 2, SkipWhile(segment, 2, Letter) - 1))
    ELSE Chars("misc")

EntryKey(segment) ==
    LET brace_idx == Find(segment, "{", 0)
        comma_after_key == Find(segment, ",", brace_idx + 1)
    IN  IF comma_after_key # -1
        THEN Strip(Slice(segment, brace_idx + 1, comma_after_key))
        ELSE <<>>

\* EntryOf storing an empty string for a field whose pattern found nothing
EntryOf_BlankMissing(segment, groups) ==
    LET fields == [f \in {"__type__", "__key__", "__raw__"} \cup FieldNames |->
                      CASE f = "__type__" -> EntryType(segment)
                        [] f = "__key__" -> EntryKey(segment)
                        [] f = "__raw__" -> segment
                        [] OTHER -> IF groups[f] # <<>> THEN _clean_field_value(groups[f])
                                    ELSE <<>>]
    IN  [f \in DOMAIN fields |-> IF f = "year" THEN NormalizeYear(fields["year"]) ELSE fields[f]]

\* the dict built for one segment (lines 136-147), groups[f] being the
\* group(1) of the search for field f
EntryOf(segment, groups) ==
    LET found == {f \in FieldNames : groups[f] # <<>>}
        fields == [f \in {"__type__", "__key__", "__raw__"} \cup found |->
                      CASE f = "__type__" -> EntryType(segment)
                        [] f = "__key__" -> EntryKey(segment)
                        [] f = "__raw__" -> segment
                        [] OTHER -> _clean_field_value(groups[f])]
        y == IF "year" \in DOMAIN fields THEN fields["year"] ELSE <<>>
    IN  [f \in DOMAIN fields \cup {"year"} |->
            IF f = "year" THEN NormalizeYear(y) ELSE fields[f]]

MakeEntry(segment) == EntryOf(segment, [f \in FieldNames |-> FieldGroup(segment, f)])

\* Segment without the .strip()
Segment_Unstripped(t, start) == Slice(t, start, BlockEnd(t, start))

\* segment = text[start:end].strip()
Segment(t, start) == Strip(Slice(t, start, BlockEnd(t, start)))

\* ScanStep leaving the cursor at the start of the block it has just read
ScanStep_KeepCursor ==
    /\ pc = "scan"
    /\ NextStart(text, pos) # -1
    /\ LET start == NextStart(text, pos)
       IN  /\ pos' = start
           /\ entries' = Append(entries, MakeEntry(Segment(text, start)))
    /\ UNCHANGED <<text, pc, rules, ret, dom, genVars>>

\* the loop body when a marker is found
ScanStep ==
    /\ pc = "scan"
    /\ NextStart(text, pos) # -1
    /\ LET start == NextStart(text, pos)
       IN  /\ pos' = BlockEnd(text, start)
           /\ entries' = Append(entries, MakeEntry(Segment(text, start)))
    /\ UNCHANGED <<text, pc, rules, ret, dom, genVars>>

\* ScanBreak also leaving the loop as soon as one entry has been appended
ScanBreak_Early ==
    /\ pc = "scan"
    /\ NextStart(text, pos) = -1 \/ entries # <<>>
    /\ pc' = "parsed"
    /\ UNCHANGED <<text, pos, entries, rules, ret, dom, genVars>>

\* the break, followed by return entries
ScanBreak ==
    /\ pc = "scan"
    /\ NextStart(text, pos) = -1
    /\ pc' = "parsed"
    /\ UNCHANGED <<text, pos, entries, rules, ret, dom, genVars>>

\* ------------------------------------------------------------------
\* Classification & filtering
\* ------------------------------------------------------------------
CATS == <<"HPC", "Quantum", "Architecture", "Programming Model", "Edge/IoT", "AI", "Applications">>

CatSet == {CATS[i] : i \in 1..Len(CATS)}

\* no page has been loaded; every filter checkbox is written with "checked"
NoPage == [mode |-> "none", checked |-> [c \in CatSet |-> TRUE], hidden |-> {}]

SP == Plus(Space)       \* \s+
D == One(Digit)         \* \d
L(str) == <<Lit(str)>>
L2(a, b) == <<Lit(a), SP, Lit(b)>>

\* TOPIC_RULES, each pattern written in lower case (they are compiled with
\* re.IGNORECASE and applied through ReSearchI)
TOPIC_RULES == <<
    [cat |-> "Quantum", pat |->
        {L("quantum"), L("qubit"), L2("neutral", "atom"), L("hpcqc"), L("mqss"), L("qpi"),
         L("qdmi"), L2("pulse", "level"), L("fidelity"), L("superconducting")}],
    [cat |-> "Programming Model", pat |->
        {<<WB, Lit("mpi"), WB>>, L2("message", "passing"), L("collective"), L("mpit"),
         L("mpi_t"), L("pmix"), L("sessions"), L("openmp"), L("ompd"), L("ompt"),
         L("malleability"), L2("runtime", "system")}],
    [cat |-> "Edge/IoT", pat |->
        {L("edge"), L("dds"), L("middleware"), L("real-time"), L("sensor"), L("stream"),
         L("kubernetes"), L("iot")}],
    [cat |-> "AI", pat |->
        {L2("machine", "learning"), L("neural"), L("inference"),
         <<Lit("benchmark"), AnyStar, Lit("ml")>>, L2("dataset", "distillation"),
         L("classification"), L2("deep", "learning"), L2("artificial", "intelligence")}],
    [cat |-> "Architecture", pat |->
        {L("architecture"), L("gpu"), L("fpga"), L("memory"), L("cache"), L("numa"),
         L2("vector", "extension"), L("cxl"), L2("network", "topolog"), L("hardware"),
         L("hotplug"), L2("gate", "drive"), L2("coherent", "mesh")}],
    [cat |-> "Applications", pat |->
        {<<Lit("synthetic"), SP, Lit("aperture"), SP, Lit("radar")>>, L("sar"),
         L2("earth", "observation"), L("ocean"), L("fusion"), L("reactor"), L("fluid"),
         L("cfd"), L("medical"), L("imaging"), L("lung"), L("dielectric"), L("workflows"),
         L("visualization'96"), L("graphics"), L("vrml"), L("crashworthiness"),
         L("automotive")}],
    [cat |-> "HPC", pat |->
        {<<Lit("high"), SP, Lit("performance"), SP, Lit("computing")>>, L("supercomput"),
         <<Lit("hpc"), WB>>, <<Lit("sc"), D, D>>, L("ipdps"), <<Lit("euro"), Opt("-"), Lit("mpi")>>,
         <<Lit("cluster"), WB>>, L2("parallel", "comput"), L("exascale"),
         L2("performance", "analysis"), L2("power", "management"), L("overprovision"),
         L("dvfs"), L("resilien"), L2("fault", "tolerance")}] >>

PriorityOrder ==
    <<"Quantum", "Programming Model", "Edge/IoT", "AI", "Architecture", "Applications", "HPC">>

\* PRIORITY = {cat: i for i, cat in enumerate([...])}
PRIORITY == [c \in {PriorityOrder[i] : i \in 1..Len(PriorityOrder)} |->
                (CHOOSE i \in 1..Len(PriorityOrder) : PriorityOrder[i] = c) - 1]

\* r"(sc\d{2}|ipdps|euro\-?mpi|cluster|hpcs|hpdc|ics|isc)"
VenuePattern ==
    {<<Lit("sc"), D, D>>, L("ipdps"), <<Lit("euro"), Opt("-"), Lit("mpi")>>, L("cluster"),
     L("hpcs"), L("hpdc"), L("ics"), L("isc")}

\* entry.get(f, "")
Get(entry, f) == IF f \in DOMAIN entry THEN entry[f] ELSE <<>>

\* is_preprint without the .lower()
is_preprint_CaseSensitive(entry) ==
    LET s == Join(<<Get(entry, "journal"), Get(entry, "booktitle"),
                    Get(entry, "publisher"), Get(entry, "organization")>>, <<" ">>)
    IN  Contains(s, Chars("arxiv")) \/ Contains(s, Chars("preprint"))

is_preprint(entry) ==
    LET s == LowerStr(Join(<<Get(entry, "journal"), Get(entry, "booktitle"),
                             Get(entry, "publisher"), Get(entry, "organization")>>, <<" ">>))
    IN  Contains(s, Chars("arxiv")) \/ Contains(s, Chars("preprint"))

\* Hits without the condition: every category of the rule list
Hits_Unfiltered(rs, t) == [j \in 1..Len(rs) |-> rs[j].cat]

\* [cat for cat, rx in rs if rx.search(t)]
Hits(rs, t) ==
    LET hit == {i \in 1..Len(rs) : ReSearchI(rs[i].pat, t)}
        rank == [i \in 1..Len(rs) |-> Cardinality({m \in hit : m <= i})]
    IN  [j \in 1..Cardinality(hit) |-> rs[CHOOSE i \in hit : rank[i] = j].cat]

\* SortByPriority with the sort left out: the hits stay in rule order
SortByPriority_RuleOrder(hits) == hits

\* hits.sort(key=lambda c: PRIORITY[c]): list.sort is stable
SortByPriority(hits) ==
    LET before(m, i) == \/ PRIORITY[hits[m]] < PRIORITY[hits[i]]
                        \/ (PRIORITY[hits[m]] = PRIORITY[hits[i]] /\ m <= i)
        rank == [i \in 1..Len(hits) |-> Cardinality({m \in 1..Len(hits) : before(m, i)})]
    IN  [j \in 1..Len(hits) |-> hits[CHOOSE i \in 1..Len(hits) : rank[i] = j]]

\* ClassificationText with the booktitle left out of the joined text
ClassificationText_NoBooktitle(entry) ==
    Join(<<Get(entry, "title"), Get(entry, "journal"),
           Get(entry, "institution"), Get(entry, "publisher"), Get(entry, "organization"),
           Get(entry, "keywords")>>, <<" ">>)

\* lines 165-173
ClassificationText(entry) ==
    Join(<<Get(entry, "title"), Get(entry, "journal"), Get(entry, "booktitle"),
           Get(entry, "institution"), Get(entry, "publisher"), Get(entry, "organization"),
           Get(entry, "keywords")>>, <<" ">>)

\* CategoryFrom without the final catch-all: falls off the end and returns None
CategoryFrom_NoDefault(hits, entry) ==
    IF Len(hits) > 0 THEN SortByPriority(hits)[1]
    ELSE LET venue == LowerStr(Get(entry, "booktitle") \o <<" ">> \o Get(entry, "journal"))
         IN  IF ReSearch(VenuePattern, venue) THEN "HPC" ELSE "None"

\* lines 174-181, hits being the list built on line 174
CategoryFrom(hits, entry) ==
    IF Len(hits) > 0 THEN SortByPriority(hits)[1]
    ELSE LET venue == LowerStr(Get(entry, "booktitle") \o <<" ">> \o Get(entry, "journal"))
         IN  IF ReSearch(VenuePattern, venue) THEN "HPC" ELSE "Applications"

\* assign_category(entry) with compiled_rules = rs
assign_category(rs, entry) == CategoryFrom(Hits(rs, ClassificationText(entry)), entry)

\* the line of the return statement that assign_category leaves through
ReturnLine(rs, entry) ==
    IF Len(Hits(rs, ClassificationText(entry))) > 0 THEN 177
    ELSE LET venue == LowerStr(Get(entry, "booktitle") \o <<" ">> \o Get(entry, "journal"))
         IN  IF ReSearch(VenuePattern, venue) THEN 180 ELSE 181

\* ------------------------------------------------------------------
\* Ordering of strings and stable sorting
\* ------------------------------------------------------------------
\* the characters in code-point order
CodeOrder ==
    <<"\t", "\n", "\r">>
    \o Chars(" !\"#$%&'()*+,-./0123456789:;<=>?@") \o UpperLetters \o Chars("[\\]^_")
    \o <<Grave>> \o LowerLetters \o Chars("{|}~")
    \o Chars("ÄÖÜßàáâäèéêìíîñòóôöùúûü")

Ord(c) == CHOOSE i \in 1..Len(CodeOrder) : CodeOrder[i] = c

\* a < b for Python str
StrLess(a, b) ==
    \E k \in 1..(Len(a) + 1) :
        /\ \A m \in 1..(k - 1) : m <= Len(b) /\ a[m] = b[m]
        /\ \/ k > Len(a) /\ k <= Len(b)
           \/ k <= Len(a) /\ k <= Len(b) /\ Ord(a[k]) < Ord(b[k])

\* sorted(seq, key=...) where before[m][i] says that the key of seq[m] is less
\* than the key of seq[i]: sorted is stable
StableSort(seq, before) ==
    LET first(m, i) == before[m][i] \/ (~before[i][m] /\ m <= i)
        rank == [i \in 1..Len(seq) |-> Cardinality({m \in 1..Len(seq) : first(m, i)})]
    IN  [j \in 1..Len(seq) |-> seq[CHOOSE i \in 1..Len(seq) : rank[i] = j]]

\* ------------------------------------------------------------------
\* generate_html
\* ------------------------------------------------------------------
\* yy.isdigit()
IsDigitStr(yy) == Len(yy) > 0 /\ \A i \in 1..Len(yy) : yy[i] \in Digit

DigitVal(c) == (CHOOSE i \in 1..10 : Chars("0123456789")[i] = c) - 1

RECURSIVE IntOf(_)
\* int(yy) for a string of digits
IntOf(yy) == IF Len(yy) = 0 THEN 0 ELSE 10 * IntOf(SubSeq(yy, 1, Len(yy) - 1)) + DigitVal(yy[Len(yy)])

RECURSIVE StrOfInt(_)
\* str(n) for n >= 0
StrOfInt(n) ==
    IF n < 10 THEN <<Chars("0123456789")[n + 1]>>
    ELSE StrOfInt(n \div 10) \o <<Chars("0123456789")[(n % 10) + 1]>>

\* YearKey without the minus sign
YearKey_Ascending(yy) ==
    <<IF yy = Unknown THEN 1 ELSE 0, IF IsDigitStr(yy) THEN IntOf(yy) ELSE 0>>

\* key=lambda yy: (yy == "Unknown", -int(yy) if yy.isdigit() else 0)
YearKey(yy) == <<IF yy = Unknown THEN 1 ELSE 0, IF IsDigitStr(yy) THEN 0 - IntOf(yy) ELSE 0>>

YearBefore(a, b) ==
    \/ YearKey(a)[1] < YearKey(b)[1]
    \/ YearKey(a)[1] = YearKey(b)[1] /\ YearKey(a)[2] < YearKey(b)[2]

\* by_year is kept as its items in insertion order: <<[year, refs], ...>>
YearIndex(by, y) == {i \in 1..Len(by) : by[i].year = y}

\* by_year[y]
YearRefs(by, y) == by[CHOOSE i \in YearIndex(by, y) : TRUE].refs

\* YearAppend storing a one-element list instead of appending
YearAppend_Replace(by, y, ref) ==
    IF YearIndex(by, y) = {} THEN Append(by, [year |-> y, refs |-> <<ref>>])
    ELSE [i \in 1..Len(by) |-> IF by[i].year = y THEN [year |-> y, refs |-> <<ref>>] ELSE by[i]]

\* by_year[y].append(ref), the defaultdict creating the key when it is new
YearAppend(by, y, ref) ==
    IF YearIndex(by, y) = {} THEN Append(by, [year |-> y, refs |-> <<ref>>])
    ELSE [i \in 1..Len(by) |->
             IF by[i].year = y THEN [year |-> y, refs |-> Append(by[i].refs, ref)] ELSE by[i]]

\* main calls generate_html(entries, out_html): line 267
StartGenerate ==
    /\ pc = "parsed"
    /\ pc' = "filter"
    /\ idx' = 1
    /\ filtered' = <<>>
    /\ UNCHANGED <<text, pos, entries, rules, ret, dom, by_year, sorted_years, year_links,
                   sections, entry_counter, printed>>

\* FilterStep assigning the category before the preprint test
FilterStep_ClassifyFirst ==
    /\ pc = "filter"
    /\ idx <= Len(entries)
    /\ entries' = [entries EXCEPT ![idx] =
                      [f \in DOMAIN entries[idx] \cup {"category"} |->
                          IF f = "category" THEN assign_category(rules, entries[idx])
                          ELSE entries[idx][f]]]
    /\ filtered' = IF is_preprint(entries[idx]) THEN filtered ELSE Append(filtered, idx)
    /\ idx' = idx + 1
    /\ UNCHANGED <<text, pos, pc, rules, ret, dom, by_year, sorted_years, year_links,
                   sections, entry_counter, printed>>

\* one iteration of the loop of lines 268-272
FilterStep ==
    /\ pc = "filter"
    /\ idx <= Len(entries)
    /\ IF is_preprint(entries[idx])
       THEN UNCHANGED <<entries, filtered>>
       ELSE /\ entries' = [entries EXCEPT ![idx] =
                              [f \in DOMAIN entries[idx] \cup {"category"} |->
                                  IF f = "category" THEN assign_category(rules, entries[idx])
                                  ELSE entries[idx][f]]]
            /\ filtered' = Append(filtered, idx)
    /\ idx' = idx + 1
    /\ UNCHANGED <<text, pos, pc, rules, ret, dom, by_year, sorted_years, year_links,
                   sections, entry_counter, printed>>

\* the end of that loop: line 275
FilterDone ==
    /\ pc = "filter"
    /\ idx > Len(entries)
    /\ pc' = "group"
    /\ idx' = 1
    /\ by_year' = <<>>
    /\ UNCHANGED <<text, pos, entries, rules, ret, dom, filtered, sorted_years, year_links,
                   sections, entry_counter, printed>>

\* one iteration of the loop of lines 276-277
GroupStep ==
    /\ pc = "group"
    /\ idx <= Len(filtered)
    /\ by_year' = YearAppend(by_year, entries[filtered[idx]]["year"], filtered[idx])
    /\ idx' = idx + 1
    /\ UNCHANGED <<text, pos, entries, pc, rules, ret, dom, filtered, sorted_years, year_links,
                   sections, entry_counter, printed>>

\* lines 279-299: sorted_years, the sidebar links, the empty list of sections
SortYears ==
    /\ pc = "group"
    /\ idx > Len(filtered)
    /\ LET ys == [i \in 1..Len(by_year) |-> by_year[i].year]
           sy == StableSort(ys, [m \in 1..Len(ys) |-> [i \in 1..Len(ys) |->
                                    YearBefore(ys[m], ys[i])]])
       IN  /\ sorted_years' = sy
           /\ year_links' = [i \in 1..Len(sy) |-> <<sy[i], Len(YearRefs(by_year, sy[i]))>>]
    /\ sections' = <<>>
    /\ entry_counter' = 0
    /\ idx' = 1
    /\ pc' = "render"
    /\ UNCHANGED <<text, pos, entries, rules, ret, dom, filtered, by_year, printed>>

\* key=lambda x: (x.get("title", "") or "").lower()
TitleKey(e) == LowerStr(Get(e, "title"))

\* the card of lines 303-342 for entry reference ref, the n-th card of the page
Card(ref, y, n) ==
    LET e == entries[ref]
    IN  [ref |-> ref,
         year |-> y,
         category |-> e["category"],
         title |-> IF "title" \in DOMAIN e THEN e["title"] ELSE Chars("Untitled"),
         etype |-> e["__type__"],
         raw_bib |-> Get(e, "__raw__"),
         key |-> IF Get(e, "__key__") # <<>> THEN Get(e, "__key__") ELSE <<"k">> \o StrOfInt(n),
         bib_id |-> Chars("bib-") \o y \o <<"-">> \o StrOfInt(n)]

\* one iteration of the loop of lines 300-351: the section of one year
SectionStep ==
    /\ pc = "render"
    /\ idx <= Len(sorted_years)
    /\ LET y == sorted_years[idx]
           TitleBefore(a, b) == StrLess(TitleKey(entries[a]), TitleKey(entries[b]))
           rs == YearRefs(by_year, y)
           refs == StableSort(rs, [m \in 1..Len(rs) |-> [i \in 1..Len(rs) |->
                                      TitleBefore(rs[m], rs[i])]])
           cs == [j \in 1..Len(refs) |-> Card(refs[j], y, entry_counter + j)]
       IN  /\ sections' = Append(sections, [year |-> y, badge |-> Len(cs), cards |-> cs])
           /\ entry_counter' = entry_counter + Len(refs)
    /\ idx' = idx + 1
    /\ UNCHANGED <<text, pos, entries, pc, rules, ret, dom, filtered, by_year, sorted_years,
                   year_links, printed>>

\* lines 448-449: the document is written and the summary printed
Finish ==
    /\ pc = "render"
    /\ idx > Len(sorted_years)
    /\ printed' = [entries |-> Len(filtered), years |-> Len(sorted_years)]
    /\ pc' = "done"
    /\ UNCHANGED <<text, pos, entries, rules, ret, dom, idx, filtered, by_year, sorted_years,
                   year_links, sections, entry_counter>>

\* ------------------------------------------------------------------
\* The generated page in a browser
\* ------------------------------------------------------------------
\* re.sub("[^a-z0-9]", "-", c.lower())
Slug(c) ==
    [i \in 1..Len(c) |->
        IF LowerChar(c[i]) \in LowerSet \cup Digit THEN LowerChar(c[i]) ELSE "-"]

\* the id of the filter checkbox written for category c (filters_html)
FilterId(c) == Chars("filter-") \o Slug(Chars(c))

\* const cats = [...] of the script
JsCats == <<"HPC", "Quantum", "Architecture", "Programming Model", "Edge/IoT", "AI", "Applications">>

\* idFor without the replace
idFor_NoReplace(c) == Chars("filter-") \o LowerStr(Chars(c))

\* idFor = c => 'filter-' + c.toLowerCase().replace(/[^a-z0-9]/g,'-')
idFor(c) ==
    LET lc == LowerStr(Chars(c))
    IN  Chars("filter-") \o [i \in 1..Len(lc) |->
                                IF lc[i] \in LowerSet \cup Digit THEN lc[i] ELSE "-"]

\* document.getElementById(id) among the filter checkboxes: the category whose
\* checkbox it is, "null" when there is none
getElementById(id) ==
    IF \E i \in 1..Len(CATS) : FilterId(CATS[i]) = id
    THEN CATS[CHOOSE i \in 1..Len(CATS) : FilterId(CATS[i]) = id]
    ELSE "null"

HtmlEntities ==
    << <<"&", Chars("&amp;")>>, <<"<", Chars("&lt;")>>, <<">", Chars("&gt;")>>,
       <<"\"", Chars("&quot;")>>, <<"'", Chars("&#x27;")>> >>

\* html.escape(s)
HtmlEscape(s) ==
    Flatten([i \in 1..Len(s) |->
                IF \E k \in 1..Len(HtmlEntities) : HtmlEntities[k][1] = s[i]
                THEN HtmlEntities[CHOOSE k \in 1..Len(HtmlEntities) : HtmlEntities[k][1] = s[i]][2]
                ELSE <<s[i]>>])

\* the value the browser gives an attribute written as s: character references
\* are decoded
RECURSIVE HtmlDecode(_, _)
HtmlDecode(s, i) ==
    IF i > Len(s) THEN <<>>
    ELSE LET ks == {k \in 1..Len(HtmlEntities) : HasAt(s, i, HtmlEntities[k][2])}
         IN  IF ks = {} THEN <<s[i]>> \o HtmlDecode(s, i + 1)
             ELSE LET k == CHOOSE k \in ks : TRUE
                  IN  <<HtmlEntities[k][1]>> \o HtmlDecode(s, i + Len(HtmlEntities[k][2]))

\* the cards of the page, in document order
PageCards ==
    Flatten([n \in 1..Len(sections) |-> sections[n].cards])

\* card.getAttribute('data-category') of a card written with
\* data-category="{html.escape(cat)}"
DataCategory(card) == HtmlDecode(HtmlEscape(Chars(card.category)), 1)

\* applyFilters() with the checkboxes in state checked: the set of cards (by
\* entry reference) that end up with class "hidden"
applyFilters(checked) ==
    LET cb(c) == getElementById(idFor(c))
        states == [c \in {JsCats[i] : i \in 1..Len(JsCats)} |->
                      IF cb(c) # "null" THEN checked[cb(c)] ELSE TRUE]
        show(card) ==
            LET cat == DataCategory(card)
            IN  /\ cat # <<>>
                /\ \A c \in DOMAIN states : Chars(c) = cat => states[c] # FALSE
    IN  {PageCards[j].ref : j \in {j \in 1..Len(PageCards) : ~show(PageCards[j])}}

\* the browser loads the page written by generate_html and runs its script:
\* the listeners are installed and applyFilters() is called once
PageLoad ==
    /\ pc = "done"
    /\ pc' = "page"
    /\ dom' = [mode |-> "js", checked |-> NoPage.checked,
               hidden |-> applyFilters(NoPage.checked)]
    /\ UNCHANGED <<text, pos, entries, rules, ret, genVars>>

\* the user toggles the filter checkbox of one category; the change listener,
\* when the script installed one, runs applyFilters
FilterChange ==
    /\ pc = "page"
    /\ \E c \in CatSet :
           LET checked == [dom.checked EXCEPT ![c] = ~dom.checked[c]]
           IN  dom' = [dom EXCEPT !.checked = checked,
                                  !.hidden = IF dom.mode = "js" THEN applyFilters(checked)
                                             ELSE dom.hidden]
    /\ UNCHANGED <<text, pos, entries, pc, rules, ret, genVars>>

\* click on #btnAll
ClickAll ==
    /\ pc = "page"
    /\ dom.mode = "js"
    /\ LET checked == [c \in CatSet |-> TRUE]
       IN  dom' = [dom EXCEPT !.checked = checked, !.hidden = applyFilters(checked)]
    /\ UNCHANGED <<text, pos, entries, pc, rules, ret, genVars>>

\* click on #btnNone
ClickNone ==
    /\ pc = "page"
    /\ dom.mode = "js"
    /\ LET checked == [c \in CatSet |-> FALSE]
       IN  dom' = [dom EXCEPT !.checked = checked, !.hidden = applyFilters(checked)]
    /\ UNCHANGED <<text, pos, entries, pc, rules, ret, genVars>>

\* ------------------------------------------------------------------
\* The page of generation_publications-old.py --no-js-filters: no script,
\* one style rule per category
\*   #filter-<slug>:not(:checked) ~ main .card[data-category='<cat>']{display:none}
\* An element is named by its path of child positions below <body>.
\* ------------------------------------------------------------------
\* <body>: <header>, <div class="filters">, <main>, <a>, <div class="footer">, <script>
FiltersDivPath == <<2>>
MainPath == <<3>>

\* the checkbox of CATS[i]: <div class="filters"> / <span class="filter"> / <input>
FilterInputPath(i) == FiltersDivPath \o <<i, 1>>

\* the k-th card of the n-th section:
\* <main> / <div> / <section> / <div class="content"> / <div class="cat-..."> / <article>
CardPath(n, k) == MainPath \o <<2, n, 3, k, 1>>

\* a ~ b: b comes after a among the children of the same parent
FollowingSibling(a, b) ==
    /\ Len(a) = Len(b) /\ Len(a) > 0
    /\ SubSeq(a, 1, Len(a) - 1) = SubSeq(b, 1, Len(b) - 1)
    /\ a[Len(a)] < b[Len(b)]

\* d lies inside a
Descendant(d, a) == Len(d) > Len(a) /\ SubSeq(d, 1, Len(a)) = a

\* some rule of css_filters selects the k-th card of section n
CssFilterHides(checked, n, k) ==
    \E i \in 1..Len(CATS) :
        /\ ~checked[getElementById(Chars("filter-") \o Slug(Chars(CATS[i])))]
        /\ FollowingSibling(FilterInputPath(i), MainPath)
        /\ Descendant(CardPath(n, k), MainPath)
        /\ DataCategory(sections[n].cards[k]) = Chars(CATS[i])

\* the browser loads the page written with use_js_filters = False
PageLoadNoJs ==
    /\ pc = "done"
    /\ pc' = "page"
    /\ dom' = [mode |-> "css", checked |-> NoPage.checked, hidden |-> {}]
    /\ UNCHANGED <<text, pos, entries, rules, ret, genVars>>

\* the k-th card of section n is displayed
Displayed(n, k) ==
    /\ sections[n].cards[k].ref \notin dom.hidden
    /\ dom.mode = "css" => ~CssFilterHides(dom.checked, n, k)

\* ------------------------------------------------------------------
\* Direct calls of the classifier on an entry
\* ------------------------------------------------------------------
CallIsPreprint ==
    /\ pc = "parsed"
    /\ \E i \in 1..Len(entries) :
           ret' = [fn |-> "is_preprint", arg |-> i, val |-> is_preprint(entries[i]),
                   line |-> 162]
    /\ pc' = "returned"
    /\ UNCHANGED <<text, pos, entries, rules, dom, genVars>>

CallAssignCategory ==
    /\ pc = "parsed"
    /\ \E i \in 1..Len(entries) :
           ret' = [fn |-> "assign_category", arg |-> i,
                   val |-> assign_category(rules, entries[i]),
                   line |-> ReturnLine(rules, entries[i])]
    /\ pc' = "returned"
    /\ UNCHANGED <<text, pos, entries, rules, dom, genVars>>

\* ------------------------------------------------------------------
\* Source texts for the parser: up to MaxChunks pieces of BibTeX source
\* ------------------------------------------------------------------
MaxChunks == 3

ParseChunks == {
    Chars("@a{k,\n"),
    Chars("@Book {K2, "),
    Chars(" @c{j}"),
    Chars("@{x}\n"),
    Chars(" title = {Schr\\\"odinger  cat states},\n"),
    Chars(" title = {Wrapped\n   value},\n"),
    Chars(" year = {12019},\n"),
    Chars(" Year = {in press}"),
    Chars(" author = \"M\\^uller\" ,\n"),
    Chars("\n}\n") }

ParseTexts == UNION {{Flatten(cs) : cs \in [1..n -> ParseChunks]} : n \in 0..MaxChunks}

InitParse ==
    /\ text \in ParseTexts
    /\ pos = 0
    /\ entries = <<>>
    /\ pc = "scan"
    /\ rules = TOPIC_RULES
    /\ ret = <<>>
    /\ idx = 0
    /\ entry_counter = 0
    /\ filtered = <<>>
    /\ by_year = <<>>
    /\ sorted_years = <<>>
    /\ year_links = <<>>
    /\ sections = <<>>
    /\ printed = <<>>
    /\ dom = NoPage

NextParse == ScanStep \/ ScanBreak

SpecParse == InitParse /\ [][NextParse]_vars

\* a step of the while loop, told by its effect: the cursor or the position in
\* the code changes, the list of entries stays or grows by one. In the loop
\* one of ScanStep and ScanBreak can always be taken, and each changes pos or
\* pc, so LoopRuns is possible exactly while pc = "scan" and the steps of
\* NextParse are the steps of LoopRuns.
LoopRuns ==
    /\ pc = "scan"
    /\ \E q \in {"scan", "parsed"}, p \in 0..Len(text) :
           pc' = q /\ pos' = p /\ <<p, q>> # <<pos, pc>>
    /\ entries' = entries \/ Len(entries') = Len(entries) + 1
    /\ UNCHANGED <<text, rules, ret, dom, genVars>>

\* the interpreter keeps executing the loop while the run is in it
SpecParseFair == SpecParse /\ WF_vars(LoopRuns)

\* ------------------------------------------------------------------
\* The whole run of main on a bibliography of up to MaxDocEntries records
\* ------------------------------------------------------------------
MaxDocEntries == 2

DocRecords == {
    Chars("@InProceedings{k1,\n title = {Quantum machine learning},\n booktitle = {IPDPS '24},\n year = 2024,\n}\n"),
    Chars("@article{k2,\n title = {A preprint study},\n journal = {Physics Letters},\n year = {2023},\n}\n"),
    Chars("@misc{k3,\n title = {Edge sensors},\n booktitle = {arXiv preprint},\n year = 2024,\n}\n"),
    Chars("@techreport{k4,\n title = {Exascale},\n organization = {Preprint Server},\n}\n"),
    Chars("@article{k5,\n title = {apples},\n publisher = \"ArXiv\",\n year = 2023,\n}\n"),
    Chars("@article{k6,\n author = {A. Arxiv},\n journal = {The arXiv},\n year = 1999,\n}\n"),
    Chars("@inproceedings{k8,\n title = {Edge Sensors},\n booktitle = {Proc. X},\n}\n"),
    Chars("@article{k9,\n title = {QUANTUM MACHINE LEARNING},\n year = {2024},\n}\n"),
    Chars("@book{,\n author = {B},\n institution = {Preprint Lab},\n url = {arxiv.org},\n year = 2024,\n}\n") }

DocTexts == UNION {{Flatten(cs) : cs \in [1..n -> DocRecords]} : n \in 0..MaxDocEntries}

Init ==
    /\ text \in DocTexts
    /\ pos = 0
    /\ entries = <<>>
    /\ pc = "scan"
    /\ rules = TOPIC_RULES
    /\ ret = <<>>
    /\ idx = 0
    /\ entry_counter = 0
    /\ filtered = <<>>
    /\ by_year = <<>>
    /\ sorted_years = <<>>
    /\ year_links = <<>>
    /\ sections = <<>>
    /\ printed = <<>>
    /\ dom = NoPage

Next ==
    \/ ScanStep
    \/ ScanBreak
    \/ StartGenerate
    \/ FilterStep
    \/ FilterDone
    \/ GroupStep
    \/ SortYears
    \/ SectionStep
    \/ Finish

Spec == Init /\ [][Next]_vars

\* bibliographies for the runs whose page is then used: the records k1
\* (Quantum), k3 (a preprint) and k8 (Edge/IoT)
MaxPageEntries == 2

PageRecords ==
    {r \in DocRecords : \E k \in {"{k1,", "{k3,", "{k8,"} : Contains(r, Chars(k))}

PageTexts == UNION {{Flatten(cs) : cs \in [1..n -> PageRecords]} : n \in 0..MaxPageEntries}

InitPage ==
    /\ text \in PageTexts
    /\ pos = 0
    /\ entries = <<>>
    /\ pc = "scan"
    /\ rules = TOPIC_RULES
    /\ ret = <<>>
    /\ idx = 0
    /\ entry_counter = 0
    /\ filtered = <<>>
    /\ by_year = <<>>
    /\ sorted_years = <<>>
    /\ year_links = <<>>
    /\ sections = <<>>
    /\ printed = <<>>
    /\ dom = NoPage

\* a run of main followed by the use of the page in a browser
NextPage ==
    \/ Next
    \/ PageLoad
    \/ FilterChange
    \/ ClickAll
    \/ ClickNone

SpecPage == InitPage /\ [][NextPage]_vars

\* a run of generation_publications-old.py --no-js-filters (whose parser,
\* classifier and loops are those modelled above) and the use of its page
NextPageNoJs ==
    \/ Next
    \/ PageLoadNoJs
    \/ FilterChange

SpecPageNoJs == InitPage /\ [][NextPageNoJs]_vars

\* ------------------------------------------------------------------
\* The classifier on entries of every shape: each classification field
\* absent, empty or set, under several orders of the rule list
\* ------------------------------------------------------------------
Absent == <<"ABSENT">>

FieldChoices == [
    title |-> {Absent, <<>>, Chars("Quantum machine learning"), Chars("Notes on trees"),
               Chars("Knowledge of fusion")},
    journal |-> {Absent, <<>>, Chars("Physics Letters")},
    booktitle |-> {Absent, Chars("IPDPS '24"), Chars("ArXiv Preprint"), Chars("Proc. ISC")},
    publisher |-> {Absent, Chars("preprint server")},
    organization |-> {Absent, Chars("Gauss Centre for Supercomputing")},
    keywords |-> {Absent, <<>>, Chars("exascale, OpenMP")} ]

\* the dict holding the chosen fields, with the keys every parsed entry has
EntryWith(choice) ==
    [f \in {f \in DOMAIN choice : choice[f] # Absent} \cup {"__type__", "year", "author"} |->
        CASE f = "__type__" -> Chars("misc")
          [] f = "year" -> Chars("2024")
          [] f = "author" -> Chars("Quantum, A. and Edge, B.")
          [] OTHER -> choice[f]]

ClassifyEntries ==
    {EntryWith([title |-> t, journal |-> j, booktitle |-> b,
                publisher |-> p, organization |-> o, keywords |-> k]) :
        t \in FieldChoices.title, j \in FieldChoices.journal, b \in FieldChoices.booktitle,
        p \in FieldChoices.publisher, o \in FieldChoices.organization,
        k \in FieldChoices.keywords}

Reverse(seq) == [i \in 1..Len(seq) |-> seq[Len(seq) + 1 - i]]

\* orders of the rule list: as declared, reversed, and one interleaving
RuleOrders ==
    {TOPIC_RULES, Reverse(TOPIC_RULES),
     [i \in 1..7 |-> TOPIC_RULES[<<4, 7, 1, 6, 3, 5, 2>>[i]]]}

InitClassify ==
    /\ text = <<>>
    /\ pos = 0
    /\ \E e \in ClassifyEntries : entries = <<e>>
    /\ pc = "parsed"
    /\ rules \in RuleOrders
    /\ ret = <<>>
    /\ idx = 0
    /\ entry_counter = 0
    /\ filtered = <<>>
    /\ by_year = <<>>
    /\ sorted_years = <<>>
    /\ year_links = <<>>
    /\ sections = <<>>
    /\ printed = <<>>
    /\ dom = NoPage

NextClassify ==
    \/ CallIsPreprint
    \/ CallAssignCategory
    \/ StartGenerate
    \/ FilterStep
    \/ FilterDone

SpecClassify == InitClassify /\ [][NextClassify]_vars

\* ------------------------------------------------------------------
\* Properties of the classifier
\* ------------------------------------------------------------------
Returned(fn) == pc = "returned" /\ ret.fn = fn

\* C1: assign_category is total: on every entry, whichever of its fields are
\* present, absent or empty, it returns one of the seven labels of CATS, and
\* every entry retained by generate_html carries such a label as its category.
C1_ClassifierTotal ==
    /\ Returned("assign_category") => ret.val \in CatSet
    /\ \A k \in 1..Len(filtered) :
           /\ "category" \in DOMAIN entries[filtered[k]]
           /\ entries[filtered[k]]["category"] \in CatSet

\* an entry without title, with an empty journal and an empty keywords field has
\* been classified, and one such entry has been retained by generate_html
C1_Witness ==
    /\ "title" \notin DOMAIN entries[1]
    /\ Get(entries[1], "journal") = <<>> /\ "journal" \in DOMAIN entries[1]
    /\ Get(entries[1], "keywords") = <<>> /\ "keywords" \in DOMAIN entries[1]
    /\ "booktitle" \notin DOMAIN entries[1]
    /\ \/ Returned("assign_category") /\ ret.val = "Applications"
       \/ pc = "group" /\ filtered = <<1>>

\* the categories whose rule of TOPIC_RULES matches the classification text
HitSet(entry) ==
    {TOPIC_RULES[i].cat : i \in {i \in 1..Len(TOPIC_RULES) :
                                     ReSearchI(TOPIC_RULES[i].pat, ClassificationText(entry))}}

PriorityRank(c) == CHOOSE i \in 1..Len(PriorityOrder) : PriorityOrder[i] = c

QML == Chars("Quantum machine learning")

\* c is the member of the non-empty set hs that comes first in PriorityOrder
FirstInPriority(hs, c) ==
    hs # {} => (c \in hs /\ \A d \in hs : PriorityRank(c) <= PriorityRank(d))

\* C2: when some keyword rule hits, assign_category returns the hit category
\* that comes first in Quantum > Programming Model > Edge/IoT > AI >
\* Architecture > Applications > HPC, whatever the order of the rule list; a
\* title hitting the Quantum and the AI rule is Quantum.
C2_PriorityDecides ==
    Returned("assign_category") =>
        /\ FirstInPriority(HitSet(entries[ret.arg]), ret.val)
        /\ Get(entries[ret.arg], "title") = QML => ret.val = "Quantum"

\* the Quantum/AI title has been classified Quantum under the reversed rule list
C2_Witness ==
    /\ Returned("assign_category")
    /\ rules = Reverse(TOPIC_RULES)
    /\ Get(entries[1], "title") = QML
    /\ {"Quantum", "AI"} \subseteq HitSet(entries[1])
    /\ ret.val = "Quantum"

\* ------------------------------------------------------------------
\* Properties of generate_html
\* ------------------------------------------------------------------
PreprintFields == {"journal", "booktitle", "publisher", "organization"}

\* some venue field of the entry contains "arxiv" or "preprint", in any case
PreprintValued(e) ==
    \E f \in PreprintFields \cap DOMAIN e :
        Contains(LowerStr(e[f]), Chars("arxiv")) \/ Contains(LowerStr(e[f]), Chars("preprint"))

Retained == {i \in 1..Len(entries) : ~PreprintValued(entries[i])}

\* C3: an entry one of whose journal, booktitle, publisher, organization values
\* contains "arxiv" or "preprint" (in any case) is excluded by generate_html: it
\* gets no category, is in no year group, on no card, and is counted neither in
\* a year count nor in the reported total.
C3_PreprintExcluded ==
    /\ \A i \in 1..Len(entries) : PreprintValued(entries[i]) =>
           /\ "category" \notin DOMAIN entries[i]
           /\ \A k \in 1..Len(filtered) : filtered[k] # i
           /\ \A g \in 1..Len(by_year) : \A k \in 1..Len(by_year[g].refs) : by_year[g].refs[k] # i
           /\ \A n \in 1..Len(sections) :
                  \A k \in 1..Len(sections[n].cards) : sections[n].cards[k].ref # i
    /\ \A n \in 1..Len(year_links) :
           year_links[n][2] <= Cardinality({i \in Retained : entries[i]["year"] = year_links[n][1]})
    /\ \A n \in 1..Len(sections) :
           sections[n].badge <= Cardinality({i \in Retained : entries[i]["year"] = sections[n].year})
    /\ pc = "done" => printed.entries <= Cardinality(Retained)

\* a run has finished on a bibliography holding the publisher = "ArXiv" record
\* and a retained record of the same year: one card, one entry reported
C3_Witness ==
    /\ pc = "done"
    /\ Len(entries) = 2
    /\ \E i \in 1..2 : Get(entries[i], "publisher") = Chars("ArXiv")
    /\ Cardinality(Retained) = 1
    /\ printed.entries = 1
    /\ Len(sections) = 1 /\ sections[1].badge = 1 /\ sections[1].year = Chars("2023")

\* ------------------------------------------------------------------
\* Properties of parse_bibtex_text
\* ------------------------------------------------------------------
\* the elements of a set of integers in increasing order
SeqOfSet(S) == [j \in 1..Cardinality(S) |-> CHOOSE x \in S : Cardinality({y \in S : y <= x}) = j]

\* the positions of text at which a record-start marker begins
Markers(t) == {i \in 1..Len(t) : MarkerBrace(t, i) # 0}

\* only whitespace lies between position i and the line break before it
LineLeading(t, i) ==
    \E n \in 1..(i - 1) : t[n] = "\n" /\ \A m \in (n + 1)..(i - 1) : t[m] \in Space

\* the first marker of the text and the later markers that begin a line
RecordStarts(t) ==
    {i \in Markers(t) : (\A m \in Markers(t) : i <= m) \/ LineLeading(t, i)}

\* the text from the k-th position of starts up to the next one, or to the end
Span(t, starts, k) ==
    SubSeq(t, starts[k], IF k < Len(starts) THEN starts[k + 1] - 1 ELSE Len(t))

Raw(k) == entries[k]["__raw__"]

EntriesFollow(starts) ==
    /\ Len(entries) <= Len(starts)
    /\ pc = "parsed" => Len(entries) = Len(starts)
    /\ \A k \in 1..Len(entries) : k <= Len(starts) => HasAt(text, starts[k], Raw(k))

\* C4 as stated: one Entry per record-start marker occurring in the text, in
\* source order, each block starting at its marker; none when there is no marker.
C4_OneEntryPerMarker == EntriesFollow(SeqOfSet(Markers(text)))

EntriesAreRecords(starts) ==
    /\ EntriesFollow(starts)
    /\ \A k \in 1..Len(entries) : Raw(k) = Strip(Span(text, starts, k))

\* C4 amended: one Entry for the first marker of the text and one for every
\* later marker that begins a line (only whitespace between it and the line
\* break before it), in source order; a marker further along a line starts no
\* entry and belongs to the block around it; each block is the text from its
\* marker to the next such marker or the end, trimmed; no marker, no entry.
C4_OneEntryPerRecordStart == EntriesAreRecords(SeqOfSet(RecordStarts(text)))

\* a finished parse of a text with three markers, one of them inside a line
C4_Witness ==
    /\ pc = "parsed"
    /\ Len(entries) = 2
    /\ Cardinality(Markers(text)) = 3
    /\ Cardinality(RecordStarts(text)) = 2

IsYearToken(y) ==
    /\ Len(y) = 4
    /\ (y[1] = "1" /\ y[2] = "9") \/ (y[1] = "2" /\ y[2] = "0")
    /\ y[3] \in Digit /\ y[4] \in Digit

YearTokens(c) == {i \in 1..(Len(c) - 3) : IsYearToken(SubSeq(c, i, i + 3))}

\* the cleaned value of field f as extracted from a block, <<>> when not found
Extracted(raw, f) ==
    IF FieldGroup(raw, f) = <<>> THEN <<>> ELSE _clean_field_value(FieldGroup(raw, f))

YearFollows(year, c) ==
    /\ IsYearToken(year) \/ year = Unknown
    /\ YearTokens(c) = {} => year = Unknown
    /\ YearTokens(c) # {} =>
           year = SubSeq(c, SeqOfSet(YearTokens(c))[1], SeqOfSet(YearTokens(c))[1] + 3)

\* C5: every Entry has a year, which is four digits starting with 19 or 20, or
\* "Unknown": the first such token of the extracted year field when it has one,
\* "Unknown" when the field is missing, empty or has none.
C5_YearNormalised ==
    \A k \in 1..Len(entries) :
        /\ "year" \in DOMAIN entries[k]
        /\ YearFollows(entries[k]["year"], Extracted(Raw(k), "year"))

\* an entry whose year field is {12019} has year 2019
C5_Witness ==
    \E k \in 1..Len(entries) :
        /\ Extracted(Raw(k), "year") = Chars("12019")
        /\ entries[k]["year"] = Chars("2019")

OtherFields == FieldNames \ {"year"}

Braces(s, a, b, c) == Cardinality({m \in a..b : s[m] = c})

\* the value of field nm in s, taken up to the first terminator that is not
\* inside braces: the line break that ends the field
CompleteValue(s, ls, nm) ==
    LET starts == {i \in 1..Len(s) : FieldMatchAt(s, ls, i, nm) # <<0, 0>>}
        i == CHOOSE i \in starts : \A m \in starts : i <= m
        v == FieldMatchAt(s, ls, i, nm)[1]
        closed(e) == TerminatorAt(s, e + 1) /\ Braces(s, v, e, "{") = Braces(s, v, e, "}")
    IN  IF \E e \in v..Len(s) : closed(e)
        THEN SubSeq(s, v, CHOOSE e \in v..Len(s) : closed(e) /\ \A m \in v..(e - 1) : ~closed(m))
        ELSE FieldSearch(s, ls, nm)

\* C6: a field whose value is wrapped over several lines is stored whole: the
\* stored value is the cleaned value up to the line break that ends the field.
C6_WrappedValueWhole ==
    \A k \in 1..Len(entries) : \A f \in OtherFields \cap DOMAIN entries[k] :
        entries[k][f] = _clean_field_value(CompleteValue(Raw(k), LowerStr(Raw(k)), Chars(f)))

\* FIELD_PATTERNS[name] matches somewhere in s (ls is s in lower case, nm the
\* characters of name)
PatternMatchesIn(s, ls, nm) ==
    \E i \in 1..Len(s) :
        /\ HasAt(ls, i, nm)
        /\ WordBoundary(s, i)
        /\ \E eq \in (i + Len(nm))..Len(s) :
               /\ s[eq] = "="
               /\ \A m \in (i + Len(nm))..(eq - 1) : s[m] \in Space
               /\ \E v \in (eq + 1)..Len(s) :
                      /\ \A m \in (eq + 1)..(v - 1) : s[m] \in Space
                      /\ \E e \in v..Len(s) : TerminatorAt(s, e + 1)

PatternMatches(s, name) == PatternMatchesIn(s, LowerStr(s), Chars(name))

\* C7: a field other than year is a key of the Entry exactly when its pattern
\* matches somewhere in the block; a field whose pattern matches nothing is
\* absent, not mapped to an empty string; year is always present.
C7_PresentIffMatched ==
    \A k \in 1..Len(entries) :
        /\ "year" \in DOMAIN entries[k]
        /\ \A f \in OtherFields : (f \in DOMAIN entries[k]) <=> PatternMatches(Raw(k), f)

\* the author field is on the last line of its block, no line break after it:
\* the entry has no author key
C7_Witness ==
    \E k \in 1..Len(entries) :
        /\ Contains(Raw(k), Chars(" author = \"M\\^uller\" ,"))
        /\ "author" \notin DOMAIN entries[k]
        /\ "title" \in DOMAIN entries[k]

\* LATEX_REPLACEMENTS read as the table of escapes it lists: every escape,
\* \^a ... \^u and \$ included, stands for the character beside it
ListedEscapes ==
    [k \in 1..Len(LATEX_REPLACEMENTS) |->
        CASE k \in 18..22 -> Esc("\\^" \o <<"a", "e", "i", "o", "u">>[k - 17],
                                 LATEX_REPLACEMENTS[k].rep[1])
          [] k = 27 -> Esc("\\$", "$")
          [] OTHER -> LATEX_REPLACEMENTS[k]]

RECURSIVE DecodeListed(_, _)
DecodeListed(s, k) ==
    IF k > Len(ListedEscapes) THEN s
    ELSE DecodeListed(ReSub(ListedEscapes[k].pat, ListedEscapes[k].rep, s), k + 1)

\* the cleaning described: a surrounding {...} or "..." pair removed when both
\* ends match, the listed escapes decoded, whitespace collapsed, ends trimmed
DescribedClean(v) ==
    Strip(ReSub(<<Plus(Space)>>, <<" ">>,
                DecodeListed(StripPair(StripPair(Strip(v), "{", "}"), "\"", "\""), 1)))

\* C8: a stored value is the extracted text without its surrounding braces or
\* quotes when both ends match (kept otherwise), with the accent escapes
\* decoded, whitespace runs collapsed and the ends trimmed.
C8_ValueCleaned ==
    \A k \in 1..Len(entries) : \A f \in OtherFields \cap DOMAIN entries[k] :
        entries[k][f] = DescribedClean(FieldGroup(Raw(k), f))

\* C9 as stated: rawText contains the entry's key and its entryType.
C9_RawContainsKeyAndType ==
    \A k \in 1..Len(entries) :
        /\ Contains(Raw(k), entries[k]["__key__"])
        /\ Contains(Raw(k), entries[k]["__type__"])

\* C9 amended: rawText contains the entry's key, and contains its entryType
\* when letter case is ignored (entryType is the marker's type in lower case).
C9_RawContainsKeyAndTypeAnyCase ==
    \A k \in 1..Len(entries) :
        /\ Contains(Raw(k), entries[k]["__key__"])
        /\ Contains(LowerStr(Raw(k)), entries[k]["__type__"])

\* an entry of type "book" with key K2 whose block spells the type "Book"
C9_Witness ==
    \E k \in 1..Len(entries) :
        /\ entries[k]["__type__"] = Chars("book")
        /\ entries[k]["__key__"] = Chars("K2")
        /\ HasAt(Raw(k), 1, Chars("@Book {K2,"))
        /\ ~Contains(Raw(k), Chars("book"))

\* C10 as stated: rawText is, character for character, the source text from
\* the entry's marker up to the next entry's marker or the end of the text.
C10_RawIsSpan ==
    \A k \in 1..Len(entries) : Raw(k) = Span(text, SeqOfSet(RecordStarts(text)), k)

RawWithin(starts) ==
    \A k \in 1..Len(entries) :
        LET span == Span(text, starts, k)
            n == Len(Raw(k))
        IN  /\ 1 <= n /\ n <= Len(span)
            /\ Raw(k) = SubSeq(text, starts[k], starts[k] + n - 1)
            /\ Raw(k)[n] \notin Space
            /\ \A m \in (n + 1)..Len(span) : span[m] \in Space
            /\ k < Len(starts) => starts[k] + n - 1 < starts[k + 1]

\* C10 amended: rawText is the source text from the entry's marker up to the
\* next entry's marker or the end of the text, verbatim except that the
\* whitespace at the end of that span is removed; blocks do not overlap.
C10_RawIsTrimmedSpan == RawWithin(SeqOfSet(RecordStarts(text)))

\* two entries parsed, the block of the first shorter than its span
C10_Witness ==
    /\ pc = "parsed"
    /\ Len(entries) = 2
    /\ Len(Raw(1)) < Len(Span(text, SeqOfSet(RecordStarts(text)), 1))

\* ------------------------------------------------------------------
\* Venue fallback and default of assign_category
\* ------------------------------------------------------------------
IPDPS24 == Chars("IPDPS '24")

\* no keyword rule matches the fields of the entry other than booktitle
NoKeywordElsewhere(e) ==
    \A i \in 1..Len(TOPIC_RULES) :
        ~ReSearchI(TOPIC_RULES[i].pat, ClassificationText_NoBooktitle(e))

IpdpsCase ==
    /\ Returned("assign_category")
    /\ Get(entries[ret.arg], "booktitle") = IPDPS24
    /\ NoKeywordElsewhere(entries[ret.arg])

\* C11 as stated: an entry with no matching keywords and booktitle "IPDPS '24"
\* is classified "HPC" by the venue fallback (the return of line 180), which
\* runs only when no keyword rule hits.
C11_HpcViaFallback ==
    /\ IpdpsCase => (ret.val = "HPC" /\ ret.line = 180)
    /\ (Returned("assign_category") /\ ret.line = 180) => HitSet(entries[ret.arg]) = {}

\* C11: an entry whose booktitle is "IPDPS '24" and whose other fields match no
\* keyword rule is classified "HPC" by the HPC keyword rule, whose pattern
\* contains ipdps and is searched in a text that includes the booktitle; the
\* venue fallback is not reached for it. The fallback is reached exactly when
\* no keyword rule hits and the venue pattern matches, and then yields "HPC".
C11_HpcViaKeywordRule ==
    /\ IpdpsCase =>
           /\ ret.val = "HPC"
           /\ ret.line = 177
           /\ HitSet(entries[ret.arg]) = {"HPC"}
    /\ Returned("assign_category") =>
           /\ ret.line \in {177, 180, 181}
           /\ ret.line = 177 <=> HitSet(entries[ret.arg]) # {}
           /\ ret.line = 180 =>
                  /\ ret.val = "HPC"
                  /\ ReSearch(VenuePattern, LowerStr(Get(entries[ret.arg], "booktitle")
                                  \o <<" ">> \o Get(entries[ret.arg], "journal")))

\* the IPDPS '24 entry without any other field has been classified
C11_Witness ==
    /\ IpdpsCase
    /\ DOMAIN entries[ret.arg] = {"__type__", "year", "author", "booktitle"}
    /\ ret.val = "HPC"
    /\ ret.line = 177

Blank(e, fs) == \A f \in fs : Get(e, f) = <<>>

TitleVenueKeywords == {"title", "journal", "booktitle", "keywords"}

ClassificationFields ==
    {"title", "journal", "booktitle", "institution", "publisher", "organization", "keywords"}

\* C12 as stated: an entry whose title, journal, booktitle and keywords are
\* empty or absent is classified "Applications" whatever its other fields hold.
C12_DefaultWhateverElse ==
    (Returned("assign_category") /\ Blank(entries[ret.arg], TitleVenueKeywords)) =>
        ret.val = "Applications"

\* C12: an entry whose title, journal, booktitle, institution, publisher,
\* organization and keywords are all empty or absent is classified
\* "Applications" by the final default, whatever its remaining fields (author,
\* year, type) hold; institution, publisher and organization are part of the
\* searched text, so a keyword in one of them decides the category instead.
C12_DefaultWhenTextBlank ==
    Returned("assign_category") =>
        /\ Blank(entries[ret.arg], ClassificationFields) =>
               (ret.val = "Applications" /\ ret.line = 181)
        /\ ret.line = 181 => ret.val = "Applications"
        /\ (Blank(entries[ret.arg], TitleVenueKeywords)
                /\ Contains(LowerStr(Get(entries[ret.arg], "organization")),
                            Chars("supercomput"))) => ret.val # "Applications"

\* an entry with empty title, journal and keywords, no other classification
\* field, and an author naming two topics has been classified by default
C12_Witness ==
    /\ Returned("assign_category")
    /\ Blank(entries[ret.arg], ClassificationFields)
    /\ {"title", "journal", "keywords", "author"} \subseteq DOMAIN entries[ret.arg]
    /\ Contains(entries[ret.arg]["author"], Chars("Quantum"))
    /\ ret.val = "Applications"
    /\ ret.line = 181

\* ------------------------------------------------------------------
\* Malformed blocks
\* ------------------------------------------------------------------
\* the positions of an "@" that begins no record-start marker: a block without
\* recognizable type marker
MalformedAt(t) == {i \in 1..Len(t) : t[i] = "@" /\ MarkerBrace(t, i) = 0}

SetMin(S) == CHOOSE x \in S : \A y \in S : x <= y

StartsBefore(t, m) == {r \in RecordStarts(t) : r < m}

\* C13 as stated: the scan stops at the first malformed block, so the entries
\* returned are those of the records before it and nothing after it is parsed.
C13_StopsAtMalformed ==
    (pc = "parsed" /\ MalformedAt(text) # {}) =>
        Len(entries) = Cardinality(StartsBefore(text, SetMin(MalformedAt(text))))

\* C13: parse_bibtex_text raises on no input and a malformed block (an "@" that
\* begins no record-start marker) yields no Entry of its own, but does not stop
\* the scan: before the first record it is skipped, after a record it is part
\* of that record's raw block, and every record after it is still parsed; the
\* scan ends only when no marker is left after the cursor.
C13_MalformedSkipped ==
    /\ pc \in {"scan", "parsed"}
    /\ \A k \in 1..Len(entries) :
           {"__type__", "__key__", "__raw__", "year"} \subseteq DOMAIN entries[k]
    /\ \A k \in 1..Len(entries) : Raw(k)[1] = "@" /\ MarkerBrace(Raw(k), 1) # 0
    /\ pc = "parsed" =>
           /\ SearchMarker(Slice(text, pos, Len(text))) = -1
           /\ Len(entries) = Cardinality(RecordStarts(text))
           /\ \A m \in MalformedAt(text) :
                  LET before == StartsBefore(text, m)
                      k == Cardinality(before)
                  IN  k > 0 =>
                          LET r == CHOOSE x \in before : \A y \in before : y <= x
                          IN  /\ HasAt(text, r, Raw(k))
                              /\ r + Len(Raw(k)) > m

\* a finished parse of a text in which a malformed block is followed by a
\* record, and one in which it follows a record: the later record is an entry
C13_Witness ==
    /\ pc = "parsed"
    /\ MalformedAt(text) # {}
    /\ \E r \in RecordStarts(text) : r > SetMin(MalformedAt(text))
    /\ \E m \in MalformedAt(text) : StartsBefore(text, m) # {}
    /\ Len(entries) = 2

\* ------------------------------------------------------------------
\* Phases of one run of main
\* ------------------------------------------------------------------
Classified(i) == "category" \in DOMAIN entries[i]

FilteredSet == {filtered[k] : k \in 1..Len(filtered)}

AfterFilter == {"group", "render", "done"}

\* entry i of the next state is entry i of this state with a category added
GetsCategory(i) ==
    /\ ~Classified(i)
    /\ DOMAIN entries'[i] = DOMAIN entries[i] \cup {"category"}
    /\ \A f \in DOMAIN entries[i] : entries'[i][f] = entries[i][f]

\* entries change only by the parser appending one or by the filter loop
\* adding the category of the entry at idx
EntriesChangeInPhase ==
    entries' # entries =>
        \/ pc = "scan" /\ entries' = Append(entries, entries'[Len(entries')])
        \/ /\ pc = "filter"
           /\ Len(entries') = Len(entries)
           /\ GetsCategory(idx)
           /\ \A i \in 1..Len(entries) : i # idx => entries'[i] = entries[i]

FrozenAfterFilter == pc \in AfterFilter => (entries' = entries /\ filtered' = filtered)

\* C14: in one run the phases are strictly ordered. Every record of the text
\* is parsed before classification starts; while parsing nothing is classified
\* or rendered; the filter loop gives each retained entry its category, each
\* step changing exactly one entry that had no category yet; rendering starts
\* only when every retained entry has its category, and from then on neither
\* the entries nor the retained list change.
C14_PhasesOrdered ==
    /\ [](pc # "scan" => Len(entries) = Cardinality(RecordStarts(text)))
    /\ [](pc \in {"scan", "parsed"} =>
              /\ \A i \in 1..Len(entries) : ~Classified(i)
              /\ filtered = <<>> /\ sections = <<>>)
    /\ [](pc = "filter" => sections = <<>> /\ by_year = <<>>)
    /\ [](pc \in AfterFilter =>
              \A i \in 1..Len(entries) : Classified(i) <=> i \in FilteredSet)
    /\ [](sections # <<>> => pc \in {"render", "done"})
    /\ [][EntriesChangeInPhase]_vars
    /\ [][FrozenAfterFilter]_vars

\* a run has finished on two retained records: both were classified in the
\* filter loop and rendered afterwards
C14_Witness ==
    /\ pc = "done"
    /\ Len(entries) = 2
    /\ filtered = <<1, 2>>
    /\ Classified(1) /\ Classified(2)
    /\ entry_counter = 2

\* ------------------------------------------------------------------
\* Purity of the classifier
\* ------------------------------------------------------------------
\* a call of is_preprint or assign_category leaves every entry as it was
CallLeavesEntries == pc' = "returned" => entries' = entries

\* the only change of an entry in generate_html: the entry at idx, not a
\* preprint, gets its category, computed from its own fields
OnlyCategoryAdded ==
    entries' # entries =>
        /\ pc = "filter"
        /\ ~PreprintValued(entries[idx])
        /\ Len(entries') = Len(entries)
        /\ GetsCategory(idx)
        /\ entries'[idx]["category"] = assign_category(TOPIC_RULES, entries[idx])
        /\ \A i \in 1..Len(entries) : i # idx => entries'[i] = entries[i]

\* C15: is_preprint and assign_category leave the entry they inspect unchanged
\* and their results are functions of the entry's field values (the four venue
\* fields for is_preprint; the same value whatever the order of the rule
\* list for assign_category); generate_html changes a parsed entry only by
\* adding the category to a retained entry, and an entry rejected by the
\* preprint filter is dropped as it was, without a category.
C15_ClassifierPure ==
    /\ [][CallLeavesEntries]_vars
    /\ [][OnlyCategoryAdded]_vars
    /\ [](Returned("is_preprint") => ret.val = PreprintValued(entries[ret.arg]))
    /\ [](Returned("assign_category") =>
              ret.val = assign_category(TOPIC_RULES, entries[ret.arg]))
    /\ [](\A i \in 1..Len(entries) :
              /\ PreprintValued(entries[i]) => (~Classified(i) /\ entries[i] \in ClassifyEntries)
              /\ (pc = "group" /\ ~PreprintValued(entries[i])) => Classified(i))

\* the filter loop has ended on an entry whose booktitle names a preprint: it
\* was dropped and is still the entry that was passed in
C15_Witness ==
    /\ pc = "group"
    /\ filtered = <<>>
    /\ Get(entries[1], "booktitle") = Chars("ArXiv Preprint")
    /\ ~Classified(1)
    /\ entries[1] \in ClassifyEntries

\* ------------------------------------------------------------------
\* Topic filters of the page
\* ------------------------------------------------------------------
CardAt == UNION {{<<n, k>> : k \in 1..Len(sections[n].cards)} : n \in 1..Len(sections)}

\* a card is displayed exactly when the checkbox of its category is checked
HiddenIffUnchecked ==
    \A nk \in CardAt :
        Displayed(nk[1], nk[2]) <=> dom.checked[sections[nk[1]].cards[nk[2]].category]

\* C16 as stated: in the page written with --no-js-filters, unchecking the
\* filter checkbox of a topic hides every card of that category and checking
\* it again shows them, by the style rules alone.
C16_CssFilterHides == (pc = "page" /\ dom.mode = "css") => HiddenIffUnchecked

\* ------------------------------------------------------------------
\* Termination of the scan
\* ------------------------------------------------------------------
\* an iteration that appends an entry moves the cursor forward, and the
\* cursor moves in no other way
CursorAdvances ==
    /\ entries' # entries => (pos' > pos /\ Len(entries') = Len(entries) + 1)
    /\ pos' # pos => entries' # entries
    /\ text' = text

\* C17: the scan ends on every text. Each iteration moves the cursor at least
\* one character forward and never past the end of the text, which does not
\* change; there are never more entries than characters before the cursor;
\* and the loop reaches its return.
C17_ScanTerminates ==
    /\ [][CursorAdvances]_vars
    /\ [](0 <= pos /\ pos <= Len(text) /\ Len(entries) <= pos)
    /\ <>(pc = "parsed")

\* the scan has returned after three iterations, the cursor at the end
C17_Witness ==
    /\ pc = "parsed"
    /\ Len(entries) = 3
    /\ pos = Len(text)
    /\ Len(text) > 3

CardRefs == {PageCards[j].ref : j \in 1..Len(PageCards)}

\* C18: in the page with the script, after load and after any sequence of
\* checkbox changes and All/None clicks, a card has class "hidden" (and so is
\* not displayed) exactly when the filter checkbox of its own category is
\* unchecked; with every box checked, as after All, no card is hidden, and
\* with none checked, as after None, every card is.
C18_HiddenIffUnchecked ==
    (pc = "page" /\ dom.mode = "js") =>
        /\ \A j \in 1..Len(PageCards) :
               PageCards[j].ref \in dom.hidden <=> ~dom.checked[PageCards[j].category]
        /\ \A nk \in CardAt :
               Displayed(nk[1], nk[2]) <=> sections[nk[1]].cards[nk[2]].ref \notin dom.hidden
        /\ dom.hidden \subseteq CardRefs
        /\ (\A c \in CatSet : dom.checked[c]) => dom.hidden = {}
        /\ (\A c \in CatSet : ~dom.checked[c]) => dom.hidden = CardRefs

\* the page shows an Edge/IoT card and a Quantum card; only the Edge/IoT box
\* is unchecked, and only the Edge/IoT card is hidden
C18_Witness ==
    /\ pc = "page" /\ dom.mode = "js"
    /\ Len(PageCards) = 2
    /\ \E j \in 1..2 : PageCards[j].category = "Edge/IoT" /\ dom.hidden = {PageCards[j].ref}
    /\ \E j \in 1..2 : PageCards[j].category = "Quantum"
    /\ \A c \in CatSet : dom.checked[c] <=> c # "Edge/IoT"

\* ------------------------------------------------------------------
\* Conservation and order of the rendered entries
\* ------------------------------------------------------------------
RECURSIVE SumBadges(_)
SumBadges(secs) == IF secs = <<>> THEN 0 ELSE secs[1].badge + SumBadges(Tail(secs))

\* the places <<section, position>> of the cards rendered for entry i
CardsOf(i) == {nk \in CardAt : sections[nk[1]].cards[nk[2]].ref = i}

\* C19: when the run has finished, every parsed entry that is not a preprint
\* has exactly one card, in the section of its own year, and a preprint has
\* none; the badge of each section, and of the sidebar link of that year, is
\* the number of cards of the section; the badges add up to the reported
\* total, which is the number of parsed entries minus the preprints.
C19_EntriesConserved ==
    pc = "done" =>
        /\ \A i \in 1..Len(entries) :
               IF PreprintValued(entries[i]) THEN CardsOf(i) = {}
               ELSE /\ Cardinality(CardsOf(i)) = 1
                    /\ \A nk \in CardsOf(i) : sections[nk[1]].year = entries[i]["year"]
        /\ \A nk \in CardAt : sections[nk[1]].cards[nk[2]].ref \in Retained
        /\ Len(year_links) = Len(sections)
        /\ \A n \in 1..Len(sections) :
               /\ sections[n].badge = Len(sections[n].cards)
               /\ year_links[n] = <<sections[n].year, Len(sections[n].cards)>>
        /\ SumBadges(sections) = printed.entries
        /\ printed.entries = Len(entries) - Cardinality({i \in 1..Len(entries) :
                                                             PreprintValued(entries[i])})
        /\ printed.years = Len(sections)
        /\ entry_counter = printed.entries

\* a finished run on two retained records of the same year: one section with
\* badge 2 holding a card for each
C19_Witness ==
    /\ pc = "done"
    /\ Len(entries) = 2 /\ Cardinality(Retained) = 2
    /\ entries[1]["year"] = entries[2]["year"]
    /\ Len(sections) = 1 /\ sections[1].badge = 2
    /\ Cardinality(CardsOf(1)) = 1 /\ Cardinality(CardsOf(2)) = 1
    /\ printed.entries = 2

LowerTitle(card) == LowerStr(Get(entries[card.ref], "title"))

\* the cards of one section follow each other by lower-cased title, cards of
\* equal title in source order
CardsOrdered(cards) ==
    \A k \in 1..(Len(cards) - 1) :
        \/ StrLess(LowerTitle(cards[k]), LowerTitle(cards[k + 1]))
        \/ /\ LowerTitle(cards[k]) = LowerTitle(cards[k + 1])
           /\ cards[k].ref < cards[k + 1].ref

\* C20: the year sections and the sidebar year links come in the same order,
\* numeric years strictly descending and "Unknown", if present, last; no year
\* has two sections; within a section the cards are ordered by lower-cased
\* title, cards of equal title in source order.
C20_YearsAndTitlesOrdered ==
    /\ \A n \in 1..Len(sections) :
           /\ \A m \in 1..Len(sections) : m # n => sections[m].year # sections[n].year
           /\ sections[n].year = Unknown \/ IsDigitStr(sections[n].year)
           /\ n < Len(sections) =>
                  /\ sections[n].year # Unknown
                  /\ sections[n + 1].year # Unknown =>
                         IntOf(sections[n].year) > IntOf(sections[n + 1].year)
           /\ CardsOrdered(sections[n].cards)
           /\ n <= Len(year_links) /\ year_links[n][1] = sections[n].year
    /\ pc = "done" => Len(year_links) = Len(sections)

\* a finished run on a record without year followed by one of 2024: the 2024
\* section and link come first, the Unknown ones last
C20_Witness ==
    /\ pc = "done"
    /\ Len(entries) = 2
    /\ entries[1]["year"] = Unknown /\ entries[2]["year"] = Chars("2024")
    /\ Len(sections) = 2
    /\ sections[1].year = Chars("2024") /\ sections[2].year = Unknown
    /\ year_links[1][1] = Chars("2024") /\ year_links[2][1] = Unknown

====
